---- MODULE Spec2Model ----
(***************************************************************************)
(* The three demonstration scripts of the repository, each an async        *)
(* function of the shape                                                   *)
(*     try { await client.op1(..); await client.op2(..); ... }             *)
(*     catch (error) { console.error(..) }                                 *)
(*     finally { await client.dispose() }                                  *)
(* run against a remote schema registry through @kurrent/kurrentdb-client. *)
(* The registry and the client library are not part of the repository:     *)
(* every awaited call is modelled by the outcomes an await can have (it    *)
(* returns a value, or it throws), chosen nondeterministically.            *)
(* One run of one script is one behaviour; Init picks the script.          *)
(***************************************************************************)
EXTENDS Integers, Sequences, FiniteSets, TLC

VARIABLES
    script,     \* which script this run executes
    phase,      \* "try" | "catch" | "finally" | "rejected" | "done"
    ip,         \* index in Program(script) of the next awaited call of the try block
    calls,      \* history of client calls issued: <<[op, threw]>>
    compat,     \* the value last returned by checkSchemaCompatibility
    error,      \* the value bound by catch (error)
    caught,     \* how many times the catch handler was entered
    rejected,   \* the async function's promise was rejected
    log,        \* console output, the conditional messages only
    allSchemas,       \* multi-format example: the list listSchemas resolved to
    schemasByFormat   \* multi-format example: the result of the reduce over it

vars == <<script, phase, ip, calls, compat, error, caught, rejected, log,
          allSchemas, schemasByFormat>>

Scripts == {"simple", "demo", "multi"}

\* One awaited client call of a try block: the client method, whether the
\* value it returns is then handed to JSON.parse, and whether the call sits
\* under `if (compatibility.isCompatible)`.
Step(op, parses, guarded) == [op |-> op, parses |-> parses, guarded |-> guarded]

SimpleProgram ==
    << Step("createSchema", FALSE, FALSE),
       Step("getSchema", FALSE, FALSE),
       Step("getSchemaVersion", TRUE, FALSE),
       Step("checkSchemaCompatibility", FALSE, FALSE),
       Step("registerSchemaVersion", FALSE, TRUE),
       Step("listSchemaVersions", FALSE, FALSE) >>

DemoProgram ==
    << Step("createSchema", FALSE, FALSE),
       Step("getSchema", FALSE, FALSE),
       Step("getSchemaVersion", TRUE, FALSE),
       Step("checkSchemaCompatibility", FALSE, FALSE),
       Step("registerSchemaVersion", FALSE, FALSE),
       Step("listSchemaVersions", FALSE, FALSE),
       Step("listSchemas", FALSE, FALSE),
       Step("updateSchema", FALSE, FALSE),
       Step("getSchemaVersionById", FALSE, FALSE),
       Step("listRegisteredSchemas", TRUE, FALSE),
       Step("checkSchemaCompatibility", FALSE, FALSE) >>

MultiProgram ==
    << Step("createSchema", FALSE, FALSE),
       Step("createSchema", FALSE, FALSE),
       Step("createSchema", FALSE, FALSE),
       Step("createSchema", FALSE, FALSE),
       Step("listSchemas", FALSE, FALSE),
       Step("getSchemaVersion", TRUE, FALSE),
       Step("getSchemaVersion", FALSE, FALSE),
       Step("getSchemaVersion", TRUE, FALSE) >>

Program(s) ==
    CASE s = "simple" -> SimpleProgram
      [] s = "demo"   -> DemoProgram
      [] s = "multi"  -> MultiProgram

\* The registry operations: every client method the scripts call except dispose.
RegistryOps ==
    {"createSchema", "getSchema", "getSchemaVersion", "checkSchemaCompatibility",
     "registerSchemaVersion", "listSchemaVersions", "listSchemas", "updateSchema",
     "getSchemaVersionById", "listRegisteredSchemas"}

\* What checkSchemaCompatibility may resolve to, as far as the scripts read it:
\* isCompatible, and whether an errors list is present (truthy).
CheckResults == [set : {TRUE}, isCompatible : BOOLEAN, errors : BOOLEAN]

NoResult == [set |-> FALSE, isCompatible |-> FALSE, errors |-> FALSE]

\* What an await may throw, as far as the handlers read it: an Error object
\* (error.message is readable), with or without the extra property the handler
\* prints (error.details in the demo, error.code in the multi-format example),
\* or a value with no properties (null, undefined), on which reading
\* error.message itself throws.
ErrorValues ==
    { [thrown |-> TRUE, isObject |-> TRUE,  extra |-> FALSE],
      [thrown |-> TRUE, isObject |-> TRUE,  extra |-> TRUE],
      [thrown |-> TRUE, isObject |-> FALSE, extra |-> FALSE] }

NoError == [thrown |-> FALSE, isObject |-> FALSE, extra |-> FALSE]

\* JSON.parse throws a SyntaxError, an Error object without details or code.
SyntaxError == [thrown |-> TRUE, isObject |-> TRUE, extra |-> FALSE]

Init ==
    /\ script \in Scripts
    /\ phase = "try"
    /\ ip = 1
    /\ calls = << >>
    /\ compat = NoResult
    /\ error = NoError
    /\ caught = 0
    /\ rejected = FALSE
    /\ log = << >>
    /\ allSchemas = << >>
    /\ schemasByFormat = << >>

InTry == phase = "try" /\ ip <= Len(Program(script))

Current == Program(script)[ip]

\* The step at ip is skipped: `if (compatibility.isCompatible)` is false.
GuardOff == Current.guarded /\ ~compat.isCompatible

\* Where control goes when the await at step i throws (mutant: the error is
\* swallowed and the try block resumes at the next statement).
AfterThrowResume(i) == [phase |-> "try", ip |-> i + 1]

\* Where control goes when the await at step i throws: the statements of the
\* try block that follow are abandoned and the catch clause runs.
AfterThrow(i) == [phase |-> "catch", ip |-> i]

\* The conditional console output that follows a returned call.
StepLog(s, i, res) ==
    LET op == Program(s)[i].op IN
    IF op = "checkSchemaCompatibility" /\ s = "simple" THEN
        << IF res.isCompatible THEN "Compatible: Yes" ELSE "Compatible: No" >>
    ELSE IF op = "checkSchemaCompatibility" /\ s = "demo" THEN
        << IF res.isCompatible THEN "result: COMPATIBLE" ELSE "result: INCOMPATIBLE" >>
        \o (IF ~res.isCompatible /\ res.errors
              THEN << IF i = 4 THEN "Errors:" ELSE "Errors detected:" >>
              ELSE IF i = 4 THEN << "Schema is backward compatible!" >> ELSE << >>)
    ELSE IF op = "registerSchemaVersion" THEN << "New version registered" >>
    ELSE << >>

\* The data formats of a schema.
Formats == {"json", "protobuf", "avro", "bytes"}

\* The longest list listSchemas resolves to in the model.
MaxSchemas == 3

\* The lists listSchemas may resolve to, as far as the reduce reads them: each
\* entry a schema with its own name and its details.dataFormat.
SchemaLists ==
    UNION { { [i \in 1..n |-> [schemaName |-> i, dataFormat |-> f[i]]] :
                f \in [1..n -> Formats] } : n \in 0..MaxSchemas }

\* The position in acc of the group keyed by format, 0 when acc has no such key.
GroupIndex(acc, format) ==
    IF \E g \in 1..Len(acc) : acc[g].format = format
      THEN CHOOSE g \in 1..Len(acc) : acc[g].format = format
      ELSE 0

\* The reduce callback without its `if (!acc[format])` test (mutant): the group
\* is set to a new array on every schema, dropping the ones pushed before.
GroupStepReset(acc, schema) ==
    LET format == schema.dataFormat
        g == GroupIndex(acc, format)
    IN  IF g = 0
          THEN Append(acc, [format |-> format, schemas |-> << schema >>])
          ELSE [acc EXCEPT ![g].schemas = << schema >>]

\* The reduce callback: `if (!acc[format]) acc[format] = [];
\* acc[format].push(schema); return acc`. acc is the object's entries in
\* insertion order, as Object.entries lists them.
GroupStep(acc, schema) ==
    LET format == schema.dataFormat
        g == GroupIndex(acc, format)
    IN  IF g = 0
          THEN Append(acc, [format |-> format, schemas |-> << schema >>])
          ELSE [acc EXCEPT ![g].schemas = Append(@, schema)]

\* allSchemas.reduce(callback, {}): the callback applied from left to right.
RECURSIVE Reduce(_, _)
Reduce(list, acc) ==
    IF list = << >> THEN acc ELSE Reduce(Tail(list), GroupStep(acc, Head(list)))

\* await client.<op>(...) resolves and the statements up to the next await run.
CallReturns ==
    /\ InTry /\ ~GuardOff
    /\ IF script = "multi" /\ Current.op = "listSchemas"
         THEN \E list \in SchemaLists :
                 /\ allSchemas' = list
                 /\ schemasByFormat' = Reduce(list, << >>)
         ELSE UNCHANGED <<allSchemas, schemasByFormat>>
    /\ \E res \in CheckResults :
         LET r == IF Current.op = "checkSchemaCompatibility" THEN res ELSE compat IN
         /\ compat' = r
         /\ log' = log \o StepLog(script, ip, r)
    /\ calls' = Append(calls, [op |-> Current.op, threw |-> FALSE])
    /\ ip' = ip + 1
    /\ UNCHANGED <<script, phase, error, caught, rejected>>

\* await client.<op>(...) rejects: control leaves the try block.
CallThrows ==
    /\ InTry /\ ~GuardOff
    /\ \E e \in ErrorValues : error' = e
    /\ calls' = Append(calls, [op |-> Current.op, threw |-> TRUE])
    /\ phase' = AfterThrow(ip).phase
    /\ ip' = AfterThrow(ip).ip
    /\ UNCHANGED <<script, compat, caught, rejected, log,
                   allSchemas, schemasByFormat>>

\* The call resolved, and JSON.parse of the definition it returned throws.
ParseThrows ==
    /\ InTry /\ ~GuardOff
    /\ Current.parses
    /\ error' = SyntaxError
    /\ calls' = Append(calls, [op |-> Current.op, threw |-> FALSE])
    /\ phase' = AfterThrow(ip).phase
    /\ ip' = AfterThrow(ip).ip
    /\ UNCHANGED <<script, compat, caught, rejected, log,
                   allSchemas, schemasByFormat>>

\* `if (compatibility.isCompatible) { ... }` with a false condition.
SkipGuarded ==
    /\ InTry /\ GuardOff
    /\ ip' = ip + 1
    /\ UNCHANGED <<script, phase, calls, compat, error, caught, rejected, log,
                   allSchemas, schemasByFormat>>

\* The try block ran to its end: control passes to finally.
TryCompletes ==
    /\ phase = "try" /\ ip > Len(Program(script))
    /\ phase' = "finally"
    /\ UNCHANGED <<script, ip, calls, compat, error, caught, rejected, log,
                   allSchemas, schemasByFormat>>

\* What the catch clause prints for an Error object.
CatchLog(s, e) ==
    << "Error:" >>
    \o (IF s = "demo" /\ e.extra THEN << "Details:" >> ELSE << >>)
    \o (IF s = "multi" /\ e.extra THEN << "Error code:" >> ELSE << >>)

\* Where control goes when the catch clause is left (mutant: dispose is the
\* last statement of the try block and there is no finally clause, so a run
\* that failed ends without it).
AfterCatchReturn == "done"

\* Where control goes when the catch clause is left, normally or by the
\* handler's own exception: the finally clause.
AfterCatch == "finally"

\* catch (error) { console.error('Error:', error.message); ... }: prints and
\* falls through to finally. When error has no properties, reading
\* error.message throws, and finally runs with that exception pending.
CatchHandler ==
    /\ phase = "catch"
    /\ caught' = caught + 1
    /\ IF error.isObject
         THEN /\ log' = log \o CatchLog(script, error)
              /\ rejected' = rejected
         ELSE /\ log' = log
              /\ rejected' = TRUE
    /\ phase' = AfterCatch
    /\ UNCHANGED <<script, ip, calls, compat, error,
                   allSchemas, schemasByFormat>>

\* What finally prints after dispose resolved.
FinallyLog(s) == IF s = "simple" THEN << >> ELSE << "Connection closed." >>

\* finally { await client.dispose(); ... } with dispose resolving.
DisposeReturns ==
    /\ phase = "finally"
    /\ calls' = Append(calls, [op |-> "dispose", threw |-> FALSE])
    /\ log' = log \o FinallyLog(script)
    /\ phase' = IF rejected THEN "rejected" ELSE "done"
    /\ UNCHANGED <<script, ip, compat, error, caught, rejected,
                   allSchemas, schemasByFormat>>

\* finally { await client.dispose(); ... } with dispose rejecting: the async
\* function's promise is rejected.
DisposeThrows ==
    /\ phase = "finally"
    /\ calls' = Append(calls, [op |-> "dispose", threw |-> TRUE])
    /\ rejected' = TRUE
    /\ phase' = "rejected"
    /\ UNCHANGED <<script, ip, compat, error, caught, log,
                   allSchemas, schemasByFormat>>

\* <script>().catch(console.error): the rejection is printed.
TopLevelCatch ==
    /\ phase = "rejected"
    /\ log' = Append(log, "console.error")
    /\ phase' = "done"
    /\ UNCHANGED <<script, ip, calls, compat, error, caught, rejected,
                   allSchemas, schemasByFormat>>

Next ==
    \/ CallReturns
    \/ CallThrows
    \/ ParseThrows
    \/ SkipGuarded
    \/ TryCompletes
    \/ CatchHandler
    \/ DisposeReturns
    \/ DisposeThrows
    \/ TopLevelCatch

Spec == Init /\ [][Next]_vars

\* Every awaited promise settles (the call succeeds or fails) and the event loop
\* then resumes the async function: a run does not stop while a step is enabled.
FairSpec == Spec /\ WF_vars(Next)

TypeOK ==
    /\ script \in Scripts
    /\ phase \in {"try", "catch", "finally", "rejected", "done"}
    /\ ip \in 1..(Len(Program(script)) + 1)
    /\ compat \in CheckResults \cup {NoResult}
    /\ error \in ErrorValues \cup {NoError}
    /\ caught \in 0..1
    /\ rejected \in BOOLEAN
    /\ allSchemas \in SchemaLists

----------------------------------------------------------------------------

IsRegistryCall(c) == c.op \in RegistryOps

\* A registry call of this run has thrown.
RegistryCallFailed ==
    \E i \in 1..Len(calls) : calls[i].threw /\ calls[i].op \in RegistryOps

\* C10: in each of the three scripts, once a registry call has thrown, no
\* further registry operation is issued (the only client call that may follow
\* the failed one is dispose, so there is no retry and no compensating call),
\* control is in the catch handler or past it, the handler is entered at most
\* once and exactly once by the time the finally block runs, and the try block
\* is never resumed.
C10_NoRegistryCallAfterFailure ==
    /\ \A i \in 1..Len(calls) :
          (calls[i].threw /\ calls[i].op \in RegistryOps)
              => \A j \in (i + 1)..Len(calls) : calls[j].op = "dispose"
    /\ RegistryCallFailed =>
          /\ phase \in {"catch", "finally", "rejected", "done"}
          /\ caught = (IF phase = "catch" THEN 0 ELSE 1)
          /\ ip <= Len(Program(script))
          /\ LET issued == SelectSeq(calls, IsRegistryCall) IN
                issued[Len(issued)] = [op |-> Program(script)[ip].op, threw |-> TRUE]

\* C10 witness: the comprehensive demo whose registerSchemaVersion (step 5)
\* threw has run to its end, dispose being the one call after the failure.
C10_Witness ==
    /\ script = "demo" /\ phase = "done"
    /\ Len(calls) = 6
    /\ calls[5] = [op |-> "registerSchemaVersion", threw |-> TRUE]
    /\ calls[6].op = "dispose"
    /\ caught = 1

\* The positions of calls at which op was issued.
IssuedAt(op) == {i \in 1..Len(calls) : calls[i].op = op}

\* The guard of step 5 of the simple example, as far as the script decides it:
\* registerSchemaVersion is issued only after a checkSchemaCompatibility that
\* returned isCompatible = true, that check is the client call issued
\* immediately before it, and after an incompatible verdict the script goes on
\* to listSchemaVersions without registering. (How many versions
\* listSchemaVersions then returns is the registry's answer; the script prints
\* versions.length as received.)
SimpleRegistersOnlyIfCompatible ==
    script = "simple" =>
        /\ \A i \in IssuedAt("registerSchemaVersion") :
              /\ i > 1
              /\ calls[i - 1] = [op |-> "checkSchemaCompatibility", threw |-> FALSE]
              /\ compat.set /\ compat.isCompatible
        /\ (compat.set /\ ~compat.isCompatible) => IssuedAt("registerSchemaVersion") = {}

\* In every state: dispose has been invoked at most once, not before the
\* finally clause, exactly once after it, and no client call follows it.
DisposeOnceAndLast ==
    /\ Cardinality(IssuedAt("dispose")) <= 1
    /\ \A i \in IssuedAt("dispose") : i = Len(calls)
    /\ phase \in {"try", "catch", "finally"} => IssuedAt("dispose") = {}
    /\ phase \in {"rejected", "done"} => Cardinality(IssuedAt("dispose")) = 1

\* C12: in every execution of each script in which every awaited call settles,
\* whether all registry calls succeed or one of them fails, client.dispose()
\* is eventually invoked and from then on has been invoked exactly once, and
\* at no time is a registry operation issued after dispose.
C12_DisposeEventuallyExactlyOnce ==
    /\ []DisposeOnceAndLast
    /\ <>[](Cardinality(IssuedAt("dispose")) = 1)

\* C12 witness: the multi-format example ended after one of its registry calls
\* failed, with dispose invoked once, as the last client call.
C12_Witness ==
    /\ script = "multi" /\ phase = "done"
    /\ RegistryCallFailed
    /\ IssuedAt("dispose") = {Len(calls)}

\* The messages printed so far.
Printed == {log[i] : i \in 1..Len(log)}

\* The comprehensive demo is past step 4 and before the return of step 11, so
\* compat still holds the value the step-4 check resolved to.
DemoAfterStep4 == script = "demo" /\ compat.set /\ ip \in 5..11

\* C13: in step 4 of the comprehensive demo, 'Schema is backward compatible!'
\* is printed only when the compatibility check returned isCompatible = true;
\* for every result with isCompatible = false, with or without an errors list,
\* the message is not printed.
C13_CompatibleMessageOnlyIfCompatible ==
    (DemoAfterStep4 /\ "Schema is backward compatible!" \in Printed)
        => compat.isCompatible

\* The multi-format example has run its step 5: listSchemas resolved and the
\* reduce produced schemasByFormat.
Grouped == script = "multi" /\ ip > 5

\* The places (group g, position j) of schemasByFormat that hold schema x.
PlacesOf(x) ==
    { <<g, j>> \in (1..Len(schemasByFormat)) \X (1..MaxSchemas + 1) :
          j <= Len(schemasByFormat[g].schemas) /\ schemasByFormat[g].schemas[j] = x }

\* The sizes of the first n groups, added up.
RECURSIVE SizesUpTo(_)
SizesUpTo(n) ==
    IF n = 0 THEN 0 ELSE SizesUpTo(n - 1) + Len(schemasByFormat[n].schemas)

\* C14: the grouping by format in the multi-format example is a partition of
\* the list returned by listSchemas: no two groups share a key, every listed
\* schema is at exactly one place of exactly one group, that group is keyed by
\* the schema's own details.dataFormat, schemas keep their listing order within
\* a group, no group is empty, and the group sizes sum to the number listed.
C14_GroupingIsPartition ==
    Grouped =>
        /\ \A g, h \in 1..Len(schemasByFormat) :
              schemasByFormat[g].format = schemasByFormat[h].format => g = h
        /\ \A i \in 1..Len(allSchemas) :
              /\ Cardinality(PlacesOf(allSchemas[i])) = 1
              /\ \A p \in PlacesOf(allSchemas[i]) :
                    schemasByFormat[p[1]].format = allSchemas[i].dataFormat
        /\ \A i, k \in 1..Len(allSchemas) :
              (i < k /\ allSchemas[i].dataFormat = allSchemas[k].dataFormat)
                  => \A p \in PlacesOf(allSchemas[i]), q \in PlacesOf(allSchemas[k]) :
                        p[1] = q[1] /\ p[2] < q[2]
        /\ \A g \in 1..Len(schemasByFormat) :
              /\ schemasByFormat[g].schemas # << >>
              /\ \A j \in 1..Len(schemasByFormat[g].schemas) :
                    \E i \in 1..Len(allSchemas) :
                        schemasByFormat[g].schemas[j] = allSchemas[i]
        /\ SizesUpTo(Len(schemasByFormat)) = Len(allSchemas)

\* C14 witness: three schemas were listed, the first and the third of one
\* format and the second of another, and the reduce made two groups of them.
C14_Witness ==
    /\ Grouped
    /\ Len(allSchemas) = 3
    /\ allSchemas[1].dataFormat = allSchemas[3].dataFormat
    /\ allSchemas[2].dataFormat # allSchemas[1].dataFormat
    /\ Len(schemasByFormat) = 2
    /\ Len(schemasByFormat[1].schemas) = 2

====
